---- MODULE Spec2Model ----
(***************************************************************************)
(* Model of the stock dashboard script agentic_app.py.                     *)
(*                                                                         *)
(* One execution of the script (a Streamlit "run") reads the sidebar       *)
(* widgets, optionally executes the "Fetch Data" handler, and then         *)
(* analyses every ticker held in st.session_state["stock_data"].  The      *)
(* session mapping and the temporary files on disk outlive a run;          *)
(* everything else is rebuilt by the next run.                             *)
(*                                                                         *)
(* Numbers: prices and volumes are integers; every derived value (a mean,  *)
(* a ratio, a standard deviation) is a fixed-point number with Scale units *)
(* per 1, rounded towards zero, or one of the float specials NaN / inf.    *)
(***************************************************************************)
EXTENDS Integers, Sequences, FiniteSets, TLC

VARIABLES
    mode,             \* response mode of the analysis client
    pc,               \* position of the script
    tickers,          \* line 39: list parsed from the text input
    outcomes,         \* what the provider returned for tickers[1..fi-1]
    fi,               \* position of the fetch loop (line 58)
    stock_data,       \* line 57: the handler's local dict
    warnings,         \* st.warning calls of this run (line 63)
    success,          \* st.success call of this run (line 65)
    session,          \* st.session_state["stock_data"]
    indicators,       \* line 49: selected indicators, in selection order
    tabs,             \* line 69-70
    i,                \* position of the analysis loop (line 117), 1-based
    fig,              \* the figure of the ticker being analysed
    tmpfiles,         \* number of temporary .png files that exist on disk
    image_bytes,      \* line 101
    outstanding,      \* agent.run calls that have not returned
    sent,             \* requests handed to agent.run in this run
    responses,        \* response.content of every returned request
    overall_results,  \* line 71, 120
    displayed,        \* per-ticker tabs rendered (lines 122-126)
    table,            \* summary table (line 132)
    crash             \* the call whose exception ended the run, or "none"

vars == <<mode, pc, tickers, outcomes, fi, stock_data, warnings, success,
          session, indicators, tabs, i, fig, tmpfiles, image_bytes,
          outstanding, sent, responses, overall_results, displayed, table,
          crash>>

-----------------------------------------------------------------------------
(* Bounds *)

MaxTickers == 3
MaxLeaked == 1
MaxSelected == 1
Scale == 100
MaxRows == 21
MaxShortRows == 2
MaxPrice == 2
MaxVolume == 2

(* Program constants *)

Window == 20
Span == 20
BandWidth == 2

-----------------------------------------------------------------------------
(* Generic helpers *)

Range(s) == {s[k] : k \in 1..Len(s)}

RECURSIVE SumTo(_, _)
\* s[1] + ... + s[k], accumulated left to right
SumTo(s, k) == IF k = 0 THEN 0 ELSE SumTo(s, k - 1) + s[k]

Max(a, b) == IF a > b THEN a ELSE b

RECURSIVE IsqrtFrom(_, _)
IsqrtFrom(n, r) == IF (r + 1) * (r + 1) > n THEN r ELSE IsqrtFrom(n, r + 1)

\* floor of the square root
Isqrt(n) == IsqrtFrom(n, 0)

-----------------------------------------------------------------------------
(* float64 values of derived series *)

NaN == [kind |-> "nan", val |-> 0]
Inf == [kind |-> "inf", val |-> 0]
Num(v) == [kind |-> "num", val |-> v]

IsNaN(x) == x.kind = "nan"

\* a / b for integers a, b >= 0
Ratio(a, b) ==
    IF b = 0 THEN (IF a = 0 THEN NaN ELSE Inf)
    ELSE Num((a * Scale) \div b)

\* x + k * y for float values
AddScaled(x, k, y) ==
    IF IsNaN(x) \/ IsNaN(y) THEN NaN
    ELSE IF x.kind = "inf" \/ y.kind = "inf" THEN Inf
    ELSE Num(x.val + k * y.val)

-----------------------------------------------------------------------------
(* pandas Series operations used by analyze_ticker *)

\* Series * Series
SeriesMul(a, b) == [k \in 1..Len(a) |-> a[k] * b[k]]

\* the series itself, nothing accumulated
NoCumSum(s) == s

\* Series.cumsum()
CumSum(s) == [k \in 1..Len(s) |-> SumTo(s, k)]

\* Series / Series
SeriesDiv(a, b) == [k \in 1..Len(a) |-> Ratio(a[k], b[k])]

\* rolling(window=w, min_periods=1)
RollingMinPeriodsOne(w) == 1

\* rolling(window=w): min_periods defaults to the window size
RollingMinPeriods(w) == w

\* number of observations in the window ending at k
WindowCount(k, w) == IF k < w THEN k ELSE w

\* sum of s over the window ending at k
WindowSum(s, k, w) == SumTo(s, k) - SumTo(s, k - WindowCount(k, w))

\* Series.rolling(window=w).mean()
RollingMean(s, w) ==
    [k \in 1..Len(s) |->
        IF WindowCount(k, w) < RollingMinPeriods(w) THEN NaN
        ELSE Ratio(WindowSum(s, k, w), WindowCount(k, w))]

\* Series.rolling(window=w).std(): sample standard deviation (ddof = 1)
RollingStd(s, w) ==
    [k \in 1..Len(s) |->
        LET n  == WindowCount(k, w)
            s1 == WindowSum(s, k, w)
            s2 == WindowSum(SeriesMul(s, s), k, w)
        IN  IF n < RollingMinPeriods(w) \/ n < 2 THEN NaN
            ELSE Num(Isqrt(((n * s2 - s1 * s1) * Scale * Scale) \div (n * (n - 1))))]

\* ewm(...): min_periods defaults to 0
EwmMinPeriods == 0

RECURSIVE EwmState(_, _, _)
\* the running [avg, wt] of pandas' adjusted exponentially weighted mean after
\* k observations: alpha = 2 / (span + 1), every earlier point weighted by
\* (1 - alpha) per step
EwmState(s, span, k) ==
    IF k = 1 THEN [avg |-> s[1] * Scale, wt |-> Scale]
    ELSE LET p   == EwmState(s, span, k - 1)
             old == (p.wt * (span - 1)) \div (span + 1)
         IN  [avg |-> (old * p.avg + Scale * (s[k] * Scale)) \div (old + Scale),
              wt  |-> old + Scale]

\* Series.ewm(span=span).mean()
EwmMean(s, span) ==
    [k \in 1..Len(s) |->
        IF k < Max(EwmMinPeriods, 1) THEN NaN
        ELSE Num(EwmState(s, span, k).avg)]

\* sma + k * std, elementwise
SeriesAddScaled(a, k, b) == [j \in 1..Len(a) |-> AddScaled(a[j], k, b[j])]

-----------------------------------------------------------------------------
(* DataFrames: a function from column name to Series.  Price and volume    *)
(* columns hold integers, derived columns hold float values.               *)

OHLCV == {"Open", "High", "Low", "Close", "Volume"}

\* a frame as the provider returns it
MakeFrame(close, volume) ==
    [c \in OHLCV |-> IF c = "Volume" THEN volume ELSE close]

EmptyFrame == MakeFrame(<<>>, <<>>)

\* a test that takes every frame to hold rows
IsEmptyNever(df) == FALSE

\* DataFrame.empty
IsEmpty(df) == Len(df["Close"]) = 0

\* df[col] = series
SetColumn(df, col, series) ==
    [c \in (DOMAIN df) \cup {col} |-> IF c = col THEN series ELSE df[c]]

\* a dict: keys in insertion order, and the value of each key
EmptyDict == [keys |-> <<>>, data |-> [t \in {} |-> EmptyFrame]]

\* d[k] = v
DictSet(d, k, v) ==
    [keys |-> IF k \in Range(d.keys) THEN d.keys ELSE Append(d.keys, k),
     data |-> [t \in Range(d.keys) \cup {k} |-> IF t = k THEN v ELSE d.data[t]]]

-----------------------------------------------------------------------------
(* analyze_ticker: the figure *)

IndicatorOptions ==
    {"20-Day SMA", "20-Day EMA", "20-Day Bollinger Bands", "VWAP"}

Candlestick(data) ==
    [type |-> "Candlestick", name |-> "Candlestick", mode |-> "",
     y |-> <<data["Open"], data["High"], data["Low"], data["Close"]>>]

Scatter(y, name) ==
    [type |-> "Scatter", name |-> name, mode |-> "lines", y |-> y]

\* go.Figure(data=[...]): a candlestick figure shows its range slider
Figure(traces) == [data |-> traces, xaxis_rangeslider_visible |-> TRUE]

\* fig.add_trace
AddTrace(f, trace) == [f EXCEPT !.data = Append(@, trace)]

\* (data['Close'] * data['Volume']).cumsum() / data['Volume'].cumsum()
VWAP(data) ==
    SeriesDiv(CumSum(SeriesMul(data["Close"], data["Volume"])),
              CumSum(data["Volume"]))

\* one iteration of the loop over indicators; st = [fig, data], and data is
\* the frame object held by the session mapping
AddIndicator(st, ind) ==
    IF ind = "20-Day SMA" THEN
        [st EXCEPT !.fig = AddTrace(@,
            Scatter(RollingMean(st.data["Close"], Window), "SMA (20)"))]
    ELSE IF ind = "20-Day EMA" THEN
        [st EXCEPT !.fig = AddTrace(@,
            Scatter(EwmMean(st.data["Close"], Span), "EMA (20)"))]
    ELSE IF ind = "20-Day Bollinger Bands" THEN
        LET sma == RollingMean(st.data["Close"], Window)
            std == RollingStd(st.data["Close"], Window)
        IN  [st EXCEPT !.fig = AddTrace(
                AddTrace(@, Scatter(SeriesAddScaled(sma, BandWidth, std), "BB Upper")),
                Scatter(SeriesAddScaled(sma, 0 - BandWidth, std), "BB Lower"))]
    ELSE IF ind = "VWAP" THEN
        LET d == SetColumn(st.data, "VWAP", VWAP(st.data))
        IN  [fig |-> AddTrace(st.fig, Scatter(d["VWAP"], "VWAP")), data |-> d]
    ELSE st

\* the loop run over the option list, adding each option that is selected
AddIndicatorsInOptionOrder(st, inds, k) ==
    LET options == <<"20-Day SMA", "20-Day EMA", "20-Day Bollinger Bands", "VWAP">>
        step(s, n) == IF options[n] \in Range(inds) THEN AddIndicator(s, options[n]) ELSE s
    IN  step(step(step(step(st, 1), 2), 3), 4)

RECURSIVE AddIndicators(_, _, _)
\* the loop over indicators, from position k on
AddIndicators(st, inds, k) ==
    IF k > Len(inds) THEN st
    ELSE AddIndicators(AddIndicator(st, inds[k]), inds, k + 1)

\* fig.update_layout(xaxis_rangeslider_visible=False)
UpdateLayout(f) == [f EXCEPT !.xaxis_rangeslider_visible = FALSE]

\* lines 75-94: the figure, and the frame as the loop leaves it
BuildFigure(data, inds) ==
    LET st == AddIndicators([fig |-> Figure(<<Candlestick(data)>>), data |-> data],
                            inds, 1)
    IN  [fig |-> UpdateLayout(st.fig), data |-> st.data]

NoFigure == Figure(<<>>)

\* fig.write_image: the PNG shows the traces of the figure
WriteImage(f) == [format |-> "png", traces |-> [k \in 1..Len(f.data) |-> f.data[k].name]]

NoImage == [format |-> "", traces |-> <<>>]

\* base64.b64encode(image_bytes).decode("utf-8")
B64Encode(bytes) == [encoding |-> "base64", of |-> bytes]

\* the call of agent.run for a ticker
Request(ticker, bytes) ==
    [prompt |-> <<"Analyze the stock chart for", ticker>>,
     images |-> <<[mime_type |-> "image/png", data |-> B64Encode(bytes)]>>]

-----------------------------------------------------------------------------
(* The environment: what the user may enter and what the collaborators may *)
(* answer.                                                                 *)

TickerNames == {"AAPL", "MSFT", "GOOG"}

RECURSIVE SeqsUpTo(_, _)
\* the sequences over S of length at most n
SeqsUpTo(S, n) ==
    IF n = 0 THEN {<<>>}
    ELSE LET shorter == SeqsUpTo(S, n - 1)
         IN  shorter \cup {Append(q, x) : q \in shorter, x \in S}

NoDuplicates(q) == \A a, b \in 1..Len(q) : q[a] = q[b] => a = b

\* line 38-39: the lists the text input can yield
TickerLists == SeqsUpTo(TickerNames, MaxTickers)

\* line 49-53: what the multiselect can return
IndicatorLists(n) == {q \in SeqsUpTo(IndicatorOptions, n) : NoDuplicates(q)}

\* the frame the provider holds for each ticker
FixtureMarket ==
    [t \in TickerNames |->
        IF t = "AAPL" THEN MakeFrame(<<1, 2>>, <<1, 2>>)
        ELSE IF t = "MSFT" THEN MakeFrame(<<2, 1>>, <<0, 1>>)
        ELSE MakeFrame(<<2, 2>>, <<1, 1>>)]

\* yf.download: the series, an empty frame, or an exception
DownloadOutcomes == {"data", "empty", "raise"}

\* the free-text answer of the agent
MarkdownContents == {<<"**Buy**">>}

-----------------------------------------------------------------------------
(* The script *)

NoSession == [present |-> FALSE, value |-> EmptyDict]

\* what a new run starts from: everything but the session and the disk
RunReset ==
    /\ outcomes' = <<>>
    /\ warnings' = <<>>
    /\ success' = <<>>
    /\ indicators' = <<>>
    /\ tabs' = <<>>
    /\ i' = 0
    /\ fig' = NoFigure
    /\ image_bytes' = NoImage
    /\ outstanding' = 0
    /\ sent' = <<>>
    /\ responses' = <<>>
    /\ overall_results' = <<>>
    /\ displayed' = <<>>
    /\ table' = <<>>
    /\ crash' = "none"

RunOver == pc \in {"done", "crashed"}

\* the script has ended; the next interaction starts a new run, which keeps
\* nothing of this one but the session and the disk
EndRun ==
    /\ RunOver
    /\ pc' = "idle"
    /\ tickers' = <<>>
    /\ fi' = 0
    /\ stock_data' = EmptyDict
    /\ RunReset
    /\ UNCHANGED <<mode, session, tmpfiles>>

\* an exception leaves the script: the run ends
Raise(call) ==
    /\ pc' = "crashed"
    /\ crash' = call

\* lines 38-57: a run started by the Fetch Data button
StartFetch(lists) ==
    /\ pc = "idle"
    /\ \E l \in lists : tickers' = l
    /\ fi' = 1
    /\ stock_data' = EmptyDict
    /\ pc' = "fetch"
    /\ UNCHANGED <<mode, outcomes, warnings, success, session, indicators,
                   tabs, i, fig, tmpfiles, image_bytes, outstanding, sent,
                   responses, overall_results, displayed, table, crash>>

\* lines 38-56: a run started by any other interaction; the list of line 39
\* is read by the handler only
Rerun ==
    /\ pc = "idle"
    /\ pc' = "check"
    /\ UNCHANGED <<mode, tickers, outcomes, fi, stock_data, warnings, success,
                   session, indicators, tabs, i, fig, tmpfiles, image_bytes,
                   outstanding, sent, responses, overall_results, displayed,
                   table, crash>>

\* lines 58-63: one iteration of the fetch loop
Download(market) ==
    /\ pc = "fetch"
    /\ fi <= Len(tickers)
    /\ \E o \in DownloadOutcomes :
        LET ticker == tickers[fi]
            data   == IF o = "data" THEN market[ticker] ELSE EmptyFrame
        IN  IF o = "raise"
            THEN /\ Raise("download")
                 /\ outcomes' = Append(outcomes, o)
                 /\ UNCHANGED <<fi, stock_data, warnings>>
            ELSE /\ IF ~IsEmpty(data)
                    THEN /\ stock_data' = DictSet(stock_data, ticker, data)
                         /\ UNCHANGED warnings
                    ELSE /\ warnings' = Append(warnings, ticker)
                         /\ UNCHANGED stock_data
                 /\ outcomes' = Append(outcomes, o)
                 /\ fi' = fi + 1
                 /\ UNCHANGED <<pc, crash>>
    /\ UNCHANGED <<mode, tickers, success, session, indicators, tabs, i, fig,
                   tmpfiles, image_bytes, outstanding, sent, responses,
                   overall_results, displayed, table>>

\* lines 64-65: the end of the handler
StoreFetched ==
    /\ pc = "fetch"
    /\ fi > Len(tickers)
    /\ session' = [present |-> TRUE, value |-> stock_data]
    /\ success' = <<stock_data.keys>>
    /\ pc' = "check"
    /\ UNCHANGED <<mode, tickers, outcomes, fi, stock_data, warnings,
                   indicators, tabs, i, fig, tmpfiles, image_bytes,
                   outstanding, sent, responses, overall_results, displayed,
                   table, crash>>

\* where the loop of line 117 stands with k tickers done
LoopPc(k) == IF k <= Len(session.value.keys) THEN "build" ELSE "summary"

\* lines 68-71 and 133-134; the selection of line 49 is first read by
\* analyze_ticker
CheckData(selections) ==
    /\ pc = "check"
    /\ IF session.present /\ session.value.keys # <<>>
       THEN /\ tabs' = <<"Overall Summary">> \o session.value.keys
            /\ \E sel \in selections : indicators' = sel
            /\ i' = 1
            /\ pc' = LoopPc(1)
       ELSE /\ pc' = "done"
            /\ UNCHANGED <<tabs, indicators, i>>
    /\ UNCHANGED <<mode, tickers, outcomes, fi, stock_data, warnings, success,
                   session, fig, tmpfiles, image_bytes, outstanding, sent,
                   responses, overall_results, displayed, table, crash>>

\* the ticker of the current iteration
Ticker == session.value.keys[i]

\* lines 118-119, 75-94: data is the object held by the session mapping, so
\* a column assigned to it is assigned in the mapping
BuildChart ==
    /\ pc = "build"
    /\ LET built == BuildFigure(session.value.data[Ticker], indicators)
       IN  /\ fig' = built.fig
           /\ session' = [session EXCEPT !.value.data[Ticker] = built.data]
    /\ pc' = "render"
    /\ UNCHANGED <<mode, tickers, outcomes, fi, stock_data, warnings, success,
                   indicators, tabs, i, tmpfiles, image_bytes, outstanding,
                   sent, responses, overall_results, displayed, table, crash>>

\* lines 97-99: NamedTemporaryFile(delete=False) creates the file, and
\* fig.write_image writes it or raises
RenderImage ==
    /\ pc = "render"
    /\ tmpfiles' = tmpfiles + 1
    /\ \E ok \in BOOLEAN :
        IF ok THEN /\ pc' = "read"
                   /\ UNCHANGED crash
        ELSE /\ tmpfiles < MaxLeaked
             /\ Raise("write_image")
    /\ UNCHANGED <<mode, tickers, outcomes, fi, stock_data, warnings, success,
                   session, indicators, tabs, i, fig, image_bytes, outstanding,
                   sent, responses, overall_results, displayed, table>>

\* lines 100-102: read the file back, then os.remove
ReadImage ==
    /\ pc = "read"
    /\ \E ok \in BOOLEAN :
        IF ok THEN /\ image_bytes' = WriteImage(fig)
                   /\ tmpfiles' = tmpfiles - 1
                   /\ pc' = "send"
                   /\ UNCHANGED crash
        ELSE /\ tmpfiles <= MaxLeaked
             /\ Raise("read")
             /\ UNCHANGED <<image_bytes, tmpfiles>>
    /\ UNCHANGED <<mode, tickers, outcomes, fi, stock_data, warnings, success,
                   session, indicators, tabs, i, fig, outstanding, sent,
                   responses, overall_results, displayed, table>>

\* lines 105-109: agent.run is called
SendRequest ==
    /\ pc = "send"
    /\ sent' = Append(sent, [ticker |-> Ticker, request |-> Request(Ticker, image_bytes)])
    /\ outstanding' = outstanding + 1
    /\ pc' = "await"
    /\ UNCHANGED <<mode, tickers, outcomes, fi, stock_data, warnings, success,
                   session, indicators, tabs, i, fig, tmpfiles, image_bytes,
                   responses, overall_results, displayed, table, crash>>

\* lines 109-114: agent.run returns a response or raises
AgentReturn(contents) ==
    /\ pc = "await"
    /\ outstanding' = outstanding - 1
    /\ \/ /\ \E c \in contents : responses' = Append(responses, c)
          /\ pc' = "display"
          /\ UNCHANGED crash
       \/ /\ Raise("agent.run")
          /\ UNCHANGED responses
    /\ UNCHANGED <<mode, tickers, outcomes, fi, stock_data, warnings, success,
                   session, indicators, tabs, i, fig, tmpfiles, image_bytes,
                   sent, overall_results, displayed, table>>

-----------------------------------------------------------------------------
(* Structured response mode: the content is a JSON text, here its sequence *)
(* of tokens; punctuation tokens are themselves, every other token is a    *)
(* string literal.                                                         *)

JsonPunctuation == {"{", "}", ":", ","}

Actions == {"StrongBuy", "Buy", "Hold", "Sell", "StrongSell", "Error"}

Fallback == [action |-> "Error", justification |-> "Could not parse AI response."]

RECURSIVE JsonMembers(_, _, _)
\* the members of an object from token k on, added to obj; [ok, obj]
JsonMembers(toks, k, obj) ==
    IF k + 2 > Len(toks) THEN [ok |-> FALSE, obj |-> obj]
    ELSE IF toks[k] \in JsonPunctuation \/ toks[k + 1] # ":"
            \/ toks[k + 2] \in JsonPunctuation
    THEN [ok |-> FALSE, obj |-> obj]
    ELSE LET added == [x \in (DOMAIN obj) \cup {toks[k]} |->
                          IF x = toks[k] THEN toks[k + 2] ELSE obj[x]]
         IN  IF k + 2 = Len(toks) THEN [ok |-> TRUE, obj |-> added]
             ELSE IF toks[k + 3] # "," THEN [ok |-> FALSE, obj |-> obj]
             ELSE JsonMembers(toks, k + 4, added)

\* the JSON object of a token sequence; [ok, obj]
JsonLoads(toks) ==
    LET none == [x \in {} |-> ""]
    IN  IF Len(toks) < 2 \/ toks[1] # "{" \/ toks[Len(toks)] # "}"
        THEN [ok |-> FALSE, obj |-> none]
        ELSE IF Len(toks) = 2 THEN [ok |-> TRUE, obj |-> none]
        ELSE JsonMembers(SubSeq(toks, 2, Len(toks) - 1), 1, none)

\* a parser that takes any action string
ParseAnyAction(content) ==
    LET parsed == JsonLoads(content)
    IN  IF parsed.ok /\ {"action", "justification"} \subseteq DOMAIN parsed.obj
        THEN [action |-> parsed.obj["action"],
              justification |-> parsed.obj["justification"]]
        ELSE Fallback

\* the structured result of a response content, or the fixed fallback
ParseStructured(content) ==
    LET parsed == JsonLoads(content)
    IN  IF /\ parsed.ok
           /\ {"action", "justification"} \subseteq DOMAIN parsed.obj
        THEN IF parsed.obj["action"] \in Actions
             THEN [action |-> parsed.obj["action"],
                   justification |-> parsed.obj["justification"]]
             ELSE Fallback
        ELSE Fallback

\* line 114, 119: what analyze_ticker hands back as the analysis
AnalysisOf(m, content) ==
    IF m = "structured" THEN ParseStructured(content) ELSE content

Json(a, j) == <<"{", "action", ":", a, ",", "justification", ":", j, "}">>

JsonSwapped(a, j) == <<"{", "justification", ":", j, ",", "action", ":", a, "}">>

\* answers of the agent in structured mode, well-formed and not
StructuredContents ==
    {Json(a, "uptrend") : a \in Actions}
    \cup {Json("Hold", "flat"), JsonSwapped("Sell", "downtrend")}
    \cup {<<>>, <<"**Buy**">>, <<"{", "}">>,
          <<"{", "action", ":", "Buy", "}">>,
          <<"{", "action", ":", "Buy", ",", "justification", ":", "uptrend">>,
          <<"{", "action", "Buy", ",", "justification", ":", "uptrend", "}">>,
          <<"{", "action", ":", "Buy", ",", "justification", ":", "uptrend", ",", "}">>,
          Json("Maybe", "uptrend")}

-----------------------------------------------------------------------------

\* the same position again
AdvanceRetry(k) == k

\* the next loop position after position k
Advance(k) == k + 1

\* lines 119-126: the result is recorded and the ticker's tab rendered
Display ==
    /\ pc = "display"
    /\ LET analysis == AnalysisOf(mode, responses[Len(responses)])
       IN  /\ overall_results' =
                Append(overall_results, [Stock |-> Ticker, Analysis |-> analysis])
           /\ displayed' =
                Append(displayed, [tab |-> i + 1, subheader |-> Ticker,
                                   chart |-> fig, markdown |-> analysis])
    /\ i' = Advance(i)
    /\ pc' = LoopPc(Advance(i))
    /\ UNCHANGED <<mode, tickers, outcomes, fi, stock_data, warnings, success,
                   session, indicators, tabs, fig, tmpfiles, image_bytes,
                   outstanding, sent, responses, table, crash>>

\* lines 129-132: the summary table
Summary ==
    /\ pc = "summary"
    /\ table' = overall_results
    /\ pc' = "done"
    /\ UNCHANGED <<mode, tickers, outcomes, fi, stock_data, warnings, success,
                   session, indicators, tabs, i, fig, tmpfiles, image_bytes,
                   outstanding, sent, responses, overall_results, displayed,
                   crash>>

-----------------------------------------------------------------------------
(* Specifications *)

\* a new session in response mode m whose mapping is sess
InitWith(m, sess) ==
    /\ mode = m
    /\ pc = "idle"
    /\ tickers = <<>>
    /\ outcomes = <<>>
    /\ fi = 0
    /\ stock_data = EmptyDict
    /\ warnings = <<>>
    /\ success = <<>>
    /\ session = sess
    /\ indicators = <<>>
    /\ tabs = <<>>
    /\ i = 0
    /\ fig = NoFigure
    /\ tmpfiles = 0
    /\ image_bytes = NoImage
    /\ outstanding = 0
    /\ sent = <<>>
    /\ responses = <<>>
    /\ overall_results = <<>>
    /\ displayed = <<>>
    /\ table = <<>>
    /\ crash = "none"

\* the script as it is: free-text mode, nothing fetched yet
Init == InitWith("free-text", NoSession)

Next ==
    \/ StartFetch(TickerLists)
    \/ Rerun
    \/ Download(FixtureMarket)
    \/ StoreFetched
    \/ CheckData(IndicatorLists(MaxSelected))
    \/ BuildChart
    \/ RenderImage
    \/ ReadImage
    \/ SendRequest
    \/ AgentReturn(MarkdownContents)
    \/ Display
    \/ Summary
    \/ EndRun

Spec == Init /\ [][Next]_vars

\* frames of at most MaxShortRows rows, every price and volume
ShortFrames ==
    {MakeFrame([k \in 1..Len(q) |-> q[k][1]], [k \in 1..Len(q) |-> q[k][2]]) :
        q \in SeqsUpTo((1..MaxPrice) \X (0..MaxVolume), MaxShortRows) \ {<<>>}}

\* frames of up to MaxRows rows: flat or cycling prices, cycling volumes
LongFrames ==
    {MakeFrame([k \in 1..n |-> 1 + ((a * k) % MaxPrice)],
               [k \in 1..n |-> (k + b) % (MaxVolume + 1)]) :
        n \in 1..MaxRows, a \in 0..1, b \in 0..1}

\* a session whose mapping already holds the given frames
Fetched(keys, market) ==
    [present |-> TRUE,
     value |-> [keys |-> keys, data |-> [t \in Range(keys) |-> market[t]]]]

\* the analysis half of the script, for a given set of selections and answers
Analyse(selections, contents) ==
    \/ Rerun
    \/ CheckData(selections)
    \/ BuildChart
    \/ RenderImage
    \/ ReadImage
    \/ SendRequest
    \/ AgentReturn(contents)
    \/ Display
    \/ Summary
    \/ EndRun

\* the indicator computations over bounded series: one ticker whose frame is
\* drawn from ShortFrames and LongFrames
InitInd ==
    \E f \in ShortFrames \cup LongFrames :
        InitWith("free-text", Fetched(<<"AAPL">>, [t \in {"AAPL"} |-> f]))

NextInd == Analyse(IndicatorLists(MaxSelected), MarkdownContents)

SpecInd == InitInd /\ [][NextInd]_vars

\* the chart over every selection the multiselect can return
InitChart == InitWith("free-text", Fetched(<<"AAPL">>, FixtureMarket))

NextChart == Analyse(IndicatorLists(Cardinality(IndicatorOptions)), MarkdownContents)

SpecChart == InitChart /\ [][NextChart]_vars

\* structured response mode over two fetched tickers
InitStructured == InitWith("structured", Fetched(<<"AAPL", "MSFT">>, FixtureMarket))

NextStructured == Analyse(IndicatorLists(MaxSelected), StructuredContents)

SpecStructured == InitStructured /\ [][NextStructured]_vars

-----------------------------------------------------------------------------
(* Properties *)

Keys == session.value.keys

\* positions of the script at which fig is the built figure of Ticker
ChartPcs == {"render", "read", "send", "await", "display"}

\* positions of the script inside the analysis of one ticker
AnalysisPcs == {"build"} \cup ChartPcs

\* the calls of analyze_ticker that can raise
AnalysisCalls == {"write_image", "read", "agent.run"}

Stocks(results) == {results[k].Stock : k \in 1..Len(results)}

Count(q, x) == Cardinality({k \in 1..Len(q) : q[k] = x})

RECURSIVE TotalOver(_, _)
\* the sum of f over the index set S
TotalOver(f, S) ==
    IF S = {} THEN 0
    ELSE LET x == CHOOSE x \in S : TRUE
         IN  f[x] + TotalOver(f, S \ {x})

\* the traces of fig with the given name
TracesNamed(name) == {k \in 1..Len(fig.data) : fig.data[k].name = name}

AllNaN(y) == \A j \in 1..Len(y) : IsNaN(y[j])

AllDefined(y) == \A j \in 1..Len(y) : ~IsNaN(y[j])

\* C1: over three tickers held in the session mapping, when the analysis of
\* ticker #2 fails (write_image, the read or agent.run raises), results for
\* tickers #1 and #3 are produced and displayed all the same.
C1_FailureIsolated ==
    (Len(Keys) = 3 /\ i = 2 /\ pc = "crashed" /\ crash \in AnalysisCalls) =>
        \A k \in {1, 3} :
            /\ Keys[k] \in Stocks(overall_results)
            /\ \E d \in 1..Len(displayed) : displayed[d].subheader = Keys[k]

\* the fetch handler has finished in this run
FetchDone == pc # "fetch" /\ success # <<>>

\* the entries of the list processed so far with the given outcome
EntriesWith(o) == {k \in 1..Len(outcomes) : outcomes[k] = o}

RECURSIVE FirstOccurrences(_)
\* q without its repeated elements
FirstOccurrences(q) ==
    IF q = <<>> THEN <<>>
    ELSE LET front == FirstOccurrences(SubSeq(q, 1, Len(q) - 1))
         IN  IF q[Len(q)] \in Range(front) THEN front ELSE Append(front, q[Len(q)])

RECURSIVE Select(_, _, _)
\* the tickers of the first n entries whose outcome is o, in list order
Select(o, n, list) ==
    IF n = 0 THEN <<>>
    ELSE IF outcomes[n] = o THEN Append(Select(o, n - 1, list), list[n])
    ELSE Select(o, n - 1, list)

C3_TempFileRemoved ==
    /\ (pc = "send" \/ (pc = "crashed" /\ crash \in {"write_image", "read"})) =>
        tmpfiles = 0
    /\ pc = "build" => tmpfiles = 0

\* C4: no step of the analysis of a ticker changes the session mapping: the
\* columns and values of every stored series stay what they were.
C4_AnalysisReadsOnly ==
    [][(pc \in AnalysisPcs) => (session' = session)]_vars

\* the content is a JSON object of exactly an action of the enumeration and a
\* justification, in either order
WellFormed(c) ==
    \E a \in Actions : \E j \in Range(c) \ JsonPunctuation :
        c = Json(a, j) \/ c = JsonSwapped(a, j)

\* C5: in structured mode the result recorded for a ticker whose response
\* content is not a well-formed structured result is exactly the fixed
\* fallback, and for a well-formed content it is the action/justification
\* pair of the content; parsing never ends the run.
C5_StructuredResult ==
    mode = "structured" =>
        /\ crash \in {"none"} \cup AnalysisCalls
        /\ \A k \in 1..Len(overall_results) :
            LET c == responses[k]
                r == overall_results[k].Analysis
            IN  IF WellFormed(c)
                THEN \E a \in Actions : \E j \in Range(c) \ JsonPunctuation :
                        /\ c \in {Json(a, j), JsonSwapped(a, j)}
                        /\ r = [action |-> a, justification |-> j]
                ELSE r = [action |-> "Error",
                          justification |-> "Could not parse AI response."]

\* C5 witness: one run recorded the fallback for a malformed content and the
\* parsed pair for a well-formed one.
C5_Witness ==
    /\ mode = "structured"
    /\ pc = "done"
    /\ Len(overall_results) = 2
    /\ responses[1] = <<"{", "action", ":", "Buy", ",", "justification", ":", "uptrend">>
    /\ overall_results[1].Analysis = Fallback
    /\ responses[2] = JsonSwapped("Sell", "downtrend")
    /\ overall_results[2].Analysis = [action |-> "Sell", justification |-> "downtrend"]

\* the Close column of the ticker being analysed
Close == session.value.data[Ticker]["Close"]

Volume == session.value.data[Ticker]["Volume"]

RollingNames == {"SMA (20)", "BB Upper", "BB Lower"}

\* C6 (as claimed): for a series of fewer than 20 rows the SMA, the EMA and
\* both Bollinger bands have no defined value at any index.
C6_AllUndefinedBelowWindow ==
    (pc \in ChartPcs /\ Len(Close) < Window) =>
        \A k \in 1..Len(fig.data) :
            fig.data[k].name \in RollingNames \cup {"EMA (20)"} => AllNaN(fig.data[k].y)

\* C6 (amended): for a series of fewer than 20 rows the SMA and both Bollinger
\* bands have no defined value at any index, the EMA is defined at every
\* index, every one of them has one value per row, and building the chart
\* raises nothing.
C6_RollingUndefinedBelowWindow ==
    /\ crash \in {"none", "download"} \cup AnalysisCalls
    /\ (pc \in ChartPcs /\ Len(Close) < Window) =>
        \A k \in 1..Len(fig.data) :
            LET t == fig.data[k]
            IN  /\ t.name \in RollingNames => Len(t.y) = Len(Close) /\ AllNaN(t.y)
                /\ t.name = "EMA (20)" => Len(t.y) = Len(Close) /\ AllDefined(t.y)

\* C6 witness: the EMA of a 19-row series has been computed.
C6_Witness ==
    /\ pc = "render"
    /\ Len(Close) = Window - 1
    /\ TracesNamed("EMA (20)") # {}

\* C7: at every index k the VWAP is the sum of Close x Volume over rows 1..k
\* divided by the sum of Volume over rows 1..k (undefined where that sum is
\* zero); at the last index that is the ratio over the whole range.
C7_VWAPCumulative ==
    pc \in ChartPcs =>
        \A t \in TracesNamed("VWAP") :
            LET y  == fig.data[t].y
                cv == [j \in 1..Len(Close) |-> Close[j] * Volume[j]]
            IN  /\ Len(y) = Len(Close)
                /\ \A k \in 1..Len(Close) :
                    LET num == TotalOver(cv, 1..k)
                        den == TotalOver(Volume, 1..k)
                    IN  IF den = 0 THEN IsNaN(y[k])
                        ELSE y[k] = Num((num * Scale) \div den)

\* C7 witness: a VWAP over at least three rows whose last value differs from
\* the last row's own price.
C7_Witness ==
    /\ pc = "render"
    /\ TracesNamed("VWAP") # {}
    /\ Len(Close) >= 3
    /\ \A t \in TracesNamed("VWAP") :
        /\ fig.data[t].y[Len(Close)].kind = "num"
        /\ fig.data[t].y[Len(Close)].val # Close[Len(Close)] * Scale

\* the names of the overlays one selected indicator contributes
OverlayNames(ind) ==
    IF ind = "20-Day SMA" THEN <<"SMA (20)">>
    ELSE IF ind = "20-Day EMA" THEN <<"EMA (20)">>
    ELSE IF ind = "20-Day Bollinger Bands" THEN <<"BB Upper", "BB Lower">>
    ELSE <<"VWAP">>

RECURSIVE ExpectedOverlays(_)
ExpectedOverlays(inds) ==
    IF inds = <<>> THEN <<>>
    ELSE OverlayNames(Head(inds)) \o ExpectedOverlays(Tail(inds))

\* the candlestick comes first, every other trace is a line, the slider is off
ChartShape ==
    /\ Len(fig.data) >= 1
    /\ fig.data[1].type = "Candlestick"
    /\ \A k \in 2..Len(fig.data) :
        fig.data[k].type = "Scatter" /\ fig.data[k].mode = "lines"
    /\ fig.xaxis_rangeslider_visible = FALSE

\* C8 (as claimed): the chart is one candlestick trace followed by exactly one
\* line overlay per selected indicator, in selection order, slider disabled.
C8_OneOverlayPerIndicator ==
    pc \in ChartPcs =>
        /\ ChartShape
        /\ Len(fig.data) = 1 + Len(indicators)
        /\ \A k \in 1..Len(indicators) :
            fig.data[k + 1].name \in Range(OverlayNames(indicators[k]))

\* C8 (amended): the chart is one candlestick trace followed by the line
\* overlays of the selected indicators in selection order, one per indicator
\* except two (upper, then lower) for the Bollinger Bands, slider disabled.
C8_OverlaysInSelectionOrder ==
    pc \in ChartPcs =>
        /\ ChartShape
        /\ [k \in 1..(Len(fig.data) - 1) |-> fig.data[k + 1].name]
             = ExpectedOverlays(indicators)

\* C8 witness: a chart for a selection that puts the Bollinger Bands between
\* two other indicators, out of the option list's order.
C8_Witness ==
    /\ pc = "render"
    /\ indicators = <<"VWAP", "20-Day Bollinger Bands", "20-Day SMA">>
    /\ Len(fig.data) = 5

C10_ReplacedWholesale ==
    [][(session' # session) =>
        /\ pc = "fetch"
        /\ fi > Len(tickers)
        /\ session' = [present |-> TRUE, value |-> stock_data]]_vars

====
